---- MODULE Spec2Model ----
(***************************************************************************)
(* Model of the Miss Bloom application flow: the top-level page (Index),   *)
(* the participant wizard (ApplicationForm) and the timers they start.     *)
(*                                                                         *)
(* Text values are sequences of one-character strings, so that trimming,   *)
(* joining and pattern checks are computed rather than assumed.  A date is *)
(* the empty sequence (the empty string of an <input type="date">) or a    *)
(* triple <<year, month, day>>.                                            *)
(*                                                                         *)
(* The record carries every field that has a validation rule or takes part *)
(* in a derivation; the optional free-text fields without any rule         *)
(* (homePhone, street, bust, ...) are written by handleFieldChange in the  *)
(* same way and read by nothing that is modelled here.                     *)
(***************************************************************************)
EXTENDS Integers, Sequences, FiniteSets, TLC

(***************************************************************************)
(* Bounds of the model.                                                    *)
(***************************************************************************)
\* largest number of timers that may be pending at once
MaxTimers == 2

(***************************************************************************)
(* Text helpers.                                                           *)
(***************************************************************************)
Empty == << >>
Blank == << " " >>
IsSpace(c) == c = " "

RECURSIVE TrimStart(_)
TrimStart(s) ==
  IF s = << >> THEN << >>
  ELSE IF IsSpace(Head(s)) THEN TrimStart(Tail(s)) ELSE s

RECURSIVE TrimEnd(_)
TrimEnd(s) ==
  IF s = << >> THEN << >>
  ELSE IF IsSpace(s[Len(s)]) THEN TrimEnd(SubSeq(s, 1, Len(s) - 1)) ELSE s

\* String.prototype.trim
Trim(s) == TrimEnd(TrimStart(s))

\* number of maximal runs of non-space characters
RECURSIVE CountRuns(_, _)
CountRuns(s, inWord) ==
  IF s = << >> THEN 0
  ELSE IF IsSpace(Head(s)) THEN CountRuns(Tail(s), FALSE)
  ELSE (IF inWord THEN 0 ELSE 1) + CountRuns(Tail(s), TRUE)

countWords(s) == CountRuns(s, FALSE)

\* Array.prototype.join(' ') over a sequence of texts
RECURSIVE JoinSpace(_)
JoinSpace(parts) ==
  IF parts = << >> THEN << >>
  ELSE IF Len(parts) = 1 THEN parts[1]
  ELSE parts[1] \o << " " >> \o JoinSpace(Tail(parts))

NonEmptyText(t) == t # << >>

Digits == << "0", "1", "2", "3", "4", "5", "6", "7", "8", "9" >>

\* Number.prototype.toString for a natural number
RECURSIVE NatToText(_)
NatToText(n) ==
  IF n < 10 THEN << Digits[n + 1] >>
  ELSE NatToText(n \div 10) \o << Digits[(n % 10) + 1] >>

(***************************************************************************)
(* Dates and the age rule.                                                 *)
(***************************************************************************)
NoDate == << >>
\* the current date, read once per validation pass
Today == << 2024, 6, 15 >>

\* whole years between the birth date and today, one less when the
\* birthday has not yet occurred this year
calculateAge(dob) ==
  LET years == Today[1] - dob[1]
      before == \/ Today[2] < dob[2]
                \/ (Today[2] = dob[2] /\ Today[3] < dob[3])
  IN  IF before THEN years - 1 ELSE years

isAgeInRange(dob, lo, hi) == calculateAge(dob) >= lo /\ calculateAge(dob) <= hi

MinAge == 18
MaxAge == 35
WordLimit == 500

(***************************************************************************)
(* Sections of the participant wizard.                                     *)
(***************************************************************************)
formSections ==
  << "eligibility", "contact", "personal", "background", "motivation",
     "business", "photos", "terms", "profile", "countryInfo", "review" >>

SectionIds == { formSections[i] : i \in 1..Len(formSections) }

\* formSections.findIndex(section => section.id === id), zero-based
findIndex(id) == (CHOOSE i \in 1..Len(formSections) : formSections[i] = id) - 1

\* formSections[index], zero-based
sectionAt(index) == formSections[index + 1]

(***************************************************************************)
(* The application record.                                                 *)
(***************************************************************************)
NameFields == { "firstName", "middleName", "lastName" }

RequiredTextFields ==
  { "firstName", "lastName", "email", "phone", "city", "country",
    "ethnicity", "representCountry", "height", "weight",
    "experience", "education", "skills",
    "motivation", "goals", "hearAboutUs", "strategy",
    "bio", "socialMedia", "countryOverview", "culturalInfo" }

TextFields == RequiredTextFields \cup { "middleName", "fullName", "age" }

CheckboxFields ==
  { "isEligible", "hasValidPassport", "canTravel", "isGoodHealth",
    "willFollowRules" }

PhotoFields == { "headShot1", "headShot2", "bodyShot1", "bodyShot2" }

Fields == TextFields \cup { "dateOfBirth" } \cup CheckboxFields \cup PhotoFields

\* useState<ApplicationFormData>({...}): the record of a new form
InitialFormData ==
  [ f \in Fields |->
      IF f \in CheckboxFields THEN FALSE
      ELSE IF f \in PhotoFields THEN "null"
      ELSE << >> ]

\* the section whose markup renders the input of a field
FieldSections(f) ==
  CASE f = "dateOfBirth" -> { "eligibility", "profile" }
    [] f \in CheckboxFields -> { "eligibility" }
    [] f \in { "firstName", "middleName", "lastName", "email", "phone",
               "city", "country" } -> { "contact" }
    [] f \in { "ethnicity", "representCountry", "height", "weight" } -> { "personal" }
    [] f \in { "experience", "education", "skills" } -> { "background" }
    [] f \in { "motivation", "goals", "hearAboutUs" } -> { "motivation" }
    [] f = "strategy" -> { "business" }
    [] f \in PhotoFields -> { "photos" }
    [] f \in { "bio", "socialMedia" } -> { "profile" }
    [] f \in { "countryOverview", "culturalInfo" } -> { "countryInfo" }
    [] OTHER -> { }

(***************************************************************************)
(* Field rules and the section validator (utils/formUtils).                *)
(***************************************************************************)
MsgRequired == "This field is required"
MsgEmail == "Please enter a valid email address"
MsgMustBeTrue == "You must confirm this requirement"
MsgPhoto == "This photo is required"
MsgWords == "Must be 500 words or less"
MsgAge == "You must be between 18 and 35 years old to participate"
MsgTerms == "You must agree to the terms and conditions"

FormError(f, m) == [ field |-> f, message |-> m ]

\* a non-empty run without white space and without "@"
PlainRun(s) == s # << >> /\ \A k \in 1..Len(s) : s[k] \notin { " ", "@" }

\* local@domain.tld
IsEmail(s) ==
  \E i \in 1..Len(s) :
    /\ s[i] = "@"
    /\ PlainRun(SubSeq(s, 1, i - 1))
    /\ \E j \in (i + 1)..Len(s) :
         /\ s[j] = "."
         /\ PlainRun(SubSeq(s, i + 1, j - 1))
         /\ PlainRun(SubSeq(s, j + 1, Len(s)))

\* the rules registered for a section, in registration order
SectionRules(sectionId) ==
  CASE sectionId = "eligibility" ->
         << <<"isEligible", "true">>, <<"hasValidPassport", "true">>,
            <<"canTravel", "true">>, <<"isGoodHealth", "true">>,
            <<"willFollowRules", "true">> >>
    [] sectionId = "contact" ->
         << <<"firstName", "required">>, <<"lastName", "required">>,
            <<"email", "email">>, <<"phone", "required">>,
            <<"city", "required">>, <<"country", "required">> >>
    [] sectionId = "personal" ->
         << <<"ethnicity", "required">>, <<"representCountry", "required">>,
            <<"height", "required">>, <<"weight", "required">> >>
    [] sectionId = "background" ->
         << <<"experience", "required">>, <<"education", "required">>,
            <<"skills", "required">> >>
    [] sectionId = "motivation" ->
         << <<"motivation", "required">>, <<"goals", "required">>,
            <<"hearAboutUs", "required">> >>
    [] sectionId = "business" -> << <<"strategy", "required">> >>
    [] sectionId = "photos" ->
         << <<"headShot1", "photo">>, <<"headShot2", "photo">>,
            <<"bodyShot1", "photo">>, <<"bodyShot2", "photo">> >>
    [] sectionId = "profile" ->
         << <<"bio", "words">>, <<"socialMedia", "required">> >>
    [] sectionId = "countryInfo" ->
         << <<"countryOverview", "words">>, <<"culturalInfo", "words">> >>
    [] OTHER -> << >>

\* check(record) -> FieldError | null, as a list of at most one error
RuleErrors(data, rule) ==
  LET f == rule[1]
      kind == rule[2]
  IN  CASE kind = "required" ->
             IF Trim(data[f]) = << >> THEN << FormError(f, MsgRequired) >> ELSE << >>
        [] kind = "email" ->
             IF Trim(data[f]) = << >> THEN << FormError(f, MsgRequired) >>
             ELSE IF ~IsEmail(data[f]) THEN << FormError(f, MsgEmail) >>
             ELSE << >>
        [] kind = "true" ->
             IF data[f] # TRUE THEN << FormError(f, MsgMustBeTrue) >> ELSE << >>
        [] kind = "photo" ->
             IF data[f] = "null" THEN << FormError(f, MsgPhoto) >> ELSE << >>
        [] kind = "words" ->
             IF Trim(data[f]) = << >> THEN << FormError(f, MsgRequired) >>
             ELSE IF countWords(data[f]) > WordLimit THEN << FormError(f, MsgWords) >>
             ELSE << >>

RECURSIVE CollectErrors(_, _)
CollectErrors(data, rules) ==
  IF rules = << >> THEN << >>
  ELSE RuleErrors(data, Head(rules)) \o CollectErrors(data, Tail(rules))

\* validateSection(record, sectionId) -> FieldError[]
validateApplicationForm(data, sectionId) ==
  CollectErrors(data, SectionRules(sectionId))

\* errors.some(e => e.field === field)
SomeField(errs, f) == \E i \in 1..Len(errs) : errs[i].field = f


(***************************************************************************)
(* State.                                                                  *)
(***************************************************************************)
VARIABLES
  step,             \* Index: 'select' | 'application' | 'payment' | 'success'
  applicationType,  \* Index: 'none' | 'participant' | 'director'
  transition,       \* Index: the fade flag
  timers,           \* pending setTimeout callbacks, in firing order
  currentSection,   \* ApplicationForm: the active section
  formData,         \* ApplicationForm: the record
  errors,           \* ApplicationForm: the displayed error list
  agreeTerms,       \* ApplicationForm: the terms flag
  isSubmitting,     \* ApplicationForm: a submission is outstanding
  passed,           \* the sections handleNext has passed since the form was mounted
  submitted,        \* the mounted form has called onSubmitSuccess
  paymentMethod,    \* PaymentForm: 'card' | 'paypal' | 'bank'
  payment,          \* PaymentForm: the text fields
  paymentErrors,    \* PaymentForm: the displayed error list
  isProcessing,     \* PaymentForm: a payment is outstanding
  processed,        \* a payment processing callback has run
  dirSection,       \* DirectorApplicationForm: the active section
  dirValues,        \* DirectorApplicationForm: the values held by useForm
  dirErrors,        \* DirectorApplicationForm: formState.errors
  dirPending,       \* DirectorApplicationForm: goToNextSection calls awaiting form.trigger
  notified,         \* the toasts raised by the last handler that ran
  lastOp            \* the handler that ran last

vars ==
  << step, applicationType, transition, timers, currentSection, formData,
     errors, agreeTerms, isSubmitting, passed, submitted, paymentMethod,
     payment, paymentErrors, isProcessing, processed, dirSection, dirValues,
     dirErrors, dirPending, notified, lastOp >>

pageVars == << step, applicationType, transition >>
formVars == << currentSection, formData, errors, agreeTerms, isSubmitting, passed,
              submitted >>
payVars == << paymentMethod, payment, paymentErrors, isProcessing, processed >>
dirVars == << dirSection, dirValues, dirErrors, dirPending >>

\* the participant form is rendered
Mounted(st, ty) == st = "application" /\ ty = "participant"

FormMounted == Mounted(step, applicationType)

(***************************************************************************)
(* Timers.  Every page timer runs ShortDelay ms, a submission timer        *)
(* SubmitDelay ms and a payment timer ProcessDelay ms.  The list holds the *)
(* pending callbacks in firing order: timers of equal delay fire in the    *)
(* order they were started, and a submission or payment timer fires after  *)
(* every timer pending when it was started.  A page timer started while    *)
(* such a long timer is pending fires before it only if its deadline can   *)
(* come first.  For that, a long timer counts in age the page timers that  *)
(* have run their whole delay since it was started (age * ShortDelay ms is *)
(* a lower bound of the time elapsed); a page timer is fresh (age 0) while *)
(* no such timer fired since its start and since the start of any long     *)
(* timer.  The field said counts the toasts already raised by the user     *)
(* action whose chain of callbacks started the timer.                      *)
(***************************************************************************)
ShortDelay == 300
SubmitDelay == 2000
ProcessDelay == 2000

Timer(k, l) == [ kind |-> k, live |-> l, age |-> 0, said |-> 0 ]

IsShort(t) == t.kind \notin { "submit", "process" }

\* the delay a timer was started with
Delay(t) ==
  CASE t.kind = "submit" -> SubmitDelay
    [] t.kind = "process" -> ProcessDelay
    [] OTHER -> ShortDelay

\* a page timer started now cannot fire before this timer
FiresFirst(t) == IsShort(t) \/ (t.age + 1) * ShortDelay >= Delay(t)

LastFirst(ts) ==
  IF \E i \in 1..Len(ts) : FiresFirst(ts[i])
  THEN CHOOSE i \in 1..Len(ts) :
         FiresFirst(ts[i]) /\ \A j \in (i + 1)..Len(ts) : ~FiresFirst(ts[j])
  ELSE 0

InsertAt(ts, t, p) == SubSeq(ts, 1, p) \o << t >> \o SubSeq(ts, p + 1, Len(ts))

\* setTimeout(callback, 300) in a chain that raised n toasts: the possible
\* firing orders
AddReactionTimer(ts, k, n) ==
  { InsertAt(ts, [ Timer(k, TRUE) EXCEPT !.said = n ], p) : p \in LastFirst(ts)..Len(ts) }

\* setTimeout(callback, 300) started by a click
AddShortTimer(ts, k) == AddReactionTimer(ts, k, 0)

\* setTimeout(callback, 2000)
AddLongTimer(ts, k) ==
  Append([ i \in 1..Len(ts) |->
             IF IsShort(ts[i]) THEN [ ts[i] EXCEPT !.age = 1 ] ELSE ts[i] ],
         Timer(k, TRUE))

AddSubmitTimer(ts) == AddLongTimer(ts, "submit")

\* a whole ShortDelay has passed
Elapse(ts) ==
  [ i \in 1..Len(ts) |->
      IF IsShort(ts[i]) THEN [ ts[i] EXCEPT !.age = 1 ]
      ELSE [ ts[i] EXCEPT !.age =
               IF (@ + 1) * ShortDelay >= Delay(ts[i]) THEN @ ELSE @ + 1 ] ]

\* the pending timers once the first one has fired
AfterFiring(ts) ==
  IF IsShort(Head(ts)) /\ Head(ts).age = 0 THEN Elapse(Tail(ts)) ELSE Tail(ts)

\* the timers of an unmounted component stay pending
OrphanedKind(ts, k) ==
  [ i \in 1..Len(ts) |->
      IF ts[i].kind = k THEN [ ts[i] EXCEPT !.live = FALSE ] ELSE ts[i] ]

\* the submission timers of an unmounted form stay pending
Orphaned(ts) == OrphanedKind(ts, "submit")

PendingSubmits(ts) ==
  Cardinality({ i \in 1..Len(ts) : ts[i].kind = "submit" /\ ts[i].live })

(***************************************************************************)
(* Inputs the user enters in this model.                                   *)
(***************************************************************************)
Word == << "a" >>
GoodEmail == << "a", "@", "b", ".", "c" >>
\* 18 today
DobIn == << 2006, 6, 15 >>
\* 18 tomorrow
DobOut == << 2006, 6, 16 >>

FilledFormData ==
  [ f \in Fields |->
      CASE f \in CheckboxFields -> TRUE
        [] f \in PhotoFields -> "file"
        [] f = "dateOfBirth" -> DobIn
        [] f = "age" -> NatToText(calculateAge(DobIn))
        [] f = "email" -> GoodEmail
        [] f = "middleName" -> << >>
        [] f = "lastName" -> << "b" >>
        [] f = "fullName" -> << "a", " ", "b" >>
        [] OTHER -> Word ]

\* what the user types, ticks and uploads in the wizard specification
TextInputs ==
  { << "email", Empty >>, << "email", GoodEmail >>,
    << "strategy", Empty >>, << "strategy", Word >>,
    << "dateOfBirth", NoDate >>, << "dateOfBirth", DobIn >>,
    << "dateOfBirth", DobOut >> }

CheckboxInputs == { << "isEligible", TRUE >>, << "isEligible", FALSE >> }

FileInputs == { << "headShot1", << "file" >> >> }

\* 35 today, 36 tomorrow
Dob35 == << 1988, 6, 16 >>
\* 36 today
Dob36 == << 1988, 6, 15 >>

\* the dates of birth around the two ends of the age range
BoundaryDobs == { DobIn, DobOut, Dob35, Dob36 }

\* what the user types into a name field in the editing specification
NameValues == { Empty, << "a" >>, << " " >>, << "a", " " >> }

\* the sections the user picks in the page-flow specification
FlowSections == { findIndex("terms"), findIndex("review") }

(***************************************************************************)
(* Initial state.                                                          *)
(***************************************************************************)
FreshForm ==
  /\ currentSection = "eligibility"
  /\ errors = << >>
  /\ agreeTerms = FALSE
  /\ isSubmitting = FALSE
  /\ submitted = FALSE

\* the page as loaded
InitPage ==
  /\ step = "select"
  /\ applicationType = "none"
  /\ formData = InitialFormData
  /\ passed = { }

\* the participant form once the user has filled in and passed every
\* section and has come back to the first one
InitFilled ==
  /\ step = "application"
  /\ applicationType = "participant"
  /\ formData = FilledFormData
  /\ passed = SectionIds \ { "review" }

(***************************************************************************)
(* DerivedFieldEngine: the two useEffect hooks of ApplicationForm.         *)
(***************************************************************************)
\* useEffect on [firstName, middleName, lastName]
FullNameOf(data) ==
  JoinSpace(SelectSeq(<< data["firstName"], data["middleName"], data["lastName"] >>,
                      NonEmptyText))

\* useEffect on [dateOfBirth]
AgeAfter(data) ==
  IF data["dateOfBirth"] # << >>
  THEN NatToText(calculateAge(data["dateOfBirth"]))
  ELSE data["age"]

\* the record after an edit and the effects it triggers
AfterEffects(old, new) ==
  LET named == IF \E f \in NameFields : new[f] # old[f]
               THEN [ new EXCEPT !["fullName"] = FullNameOf(new) ]
               ELSE new
  IN  IF new["dateOfBirth"] # old["dateOfBirth"]
      THEN [ named EXCEPT !["age"] = AgeAfter(named) ]
      ELSE named

(***************************************************************************)
(* ApplicationForm: field handlers.                                        *)
(***************************************************************************)
handleFieldChange(field, value) ==
  /\ FormMounted
  /\ currentSection \in FieldSections(field)
  /\ formData' = AfterEffects(formData, [ formData EXCEPT ![field] = value ])
  /\ notified' = << >>
  /\ lastOp' = "handleFieldChange"
  /\ UNCHANGED << pageVars, timers,
                  currentSection, errors, agreeTerms, isSubmitting, passed,
                  submitted, payVars, dirVars >>

handleCheckboxChange(field, checked) ==
  /\ FormMounted
  /\ currentSection \in FieldSections(field)
  /\ formData' = [ formData EXCEPT ![field] = checked ]
  /\ notified' = << >>
  /\ lastOp' = "handleCheckboxChange"
  /\ UNCHANGED << pageVars, timers,
                  currentSection, errors, agreeTerms, isSubmitting, passed,
                  submitted, payVars, dirVars >>

handleFileChange(field, files) ==
  /\ FormMounted
  /\ currentSection \in FieldSections(field)
  /\ formData' = IF Len(files) > 0
                 THEN [ formData EXCEPT ![field] = files[1] ]
                 ELSE formData
  /\ notified' = << >>
  /\ lastOp' = "handleFileChange"
  /\ UNCHANGED << pageVars, timers,
                  currentSection, errors, agreeTerms, isSubmitting, passed,
                  submitted, payVars, dirVars >>

\* the terms checkbox: onChange={() => setAgreeTerms(!agreeTerms)}
toggleAgreeTerms ==
  /\ FormMounted
  /\ currentSection = "terms"
  /\ agreeTerms' = ~agreeTerms
  /\ notified' = << >>
  /\ lastOp' = "toggleAgreeTerms"
  /\ UNCHANGED << pageVars, timers,
                  currentSection, formData, errors, isSubmitting, passed,
                  submitted, payVars, dirVars >>

(***************************************************************************)
(* ApplicationForm: navigation.                                            *)
(***************************************************************************)
\* variant of AgeRangeErrors: the age check is left out
AgeRangeErrorsSkipped(data, section) == << >>

\* variant of AgeRangeErrors: the two ends of the range are rejected
AgeRangeErrorsExclusive(data, section) ==
  IF section = "eligibility" /\ data["dateOfBirth"] # << >>
     /\ ~isAgeInRange(data["dateOfBirth"], MinAge + 1, MaxAge - 1)
  THEN << FormError("dateOfBirth", MsgAge) >>
  ELSE << >>

\* handleNext: the additional eligibility validation
AgeRangeErrors(data, section) ==
  IF section = "eligibility" /\ data["dateOfBirth"] # << >>
     /\ ~isAgeInRange(data["dateOfBirth"], MinAge, MaxAge)
  THEN << FormError("dateOfBirth", MsgAge) >>
  ELSE << >>

\* handleNext: the errors of the current section
NextErrors(data, section) ==
  validateApplicationForm(data, section) \o AgeRangeErrors(data, section)

\* handleNext: the section after the click
SectionAfterNext(section, sectionErrors) ==
  IF Len(sectionErrors) = 0 /\ findIndex(section) < Len(formSections) - 1
  THEN sectionAt(findIndex(section) + 1)
  ELSE section

\* history: a section counts as passed once handleNext found no error on it
PassedAfter(done, section, sectionErrors) ==
  IF Len(sectionErrors) = 0 THEN done \cup { section } ELSE done

\* variant of handleNext: an empty result does not clear the displayed errors
handleNextKeepsErrors ==
  /\ FormMounted
  /\ currentSection # "review"
  /\ errors' = IF NextErrors(formData, currentSection) = << >>
               THEN errors ELSE NextErrors(formData, currentSection)
  /\ currentSection' = SectionAfterNext(currentSection, NextErrors(formData, currentSection))
  /\ notified' = << >>
  /\ lastOp' = "handleNext"
  /\ passed' = PassedAfter(passed, currentSection, NextErrors(formData, currentSection))
  /\ UNCHANGED << pageVars, timers, submitted, formData, agreeTerms, isSubmitting, payVars, dirVars >>

\* the Next button is rendered on every section but review
handleNext ==
  /\ FormMounted
  /\ currentSection # "review"
  /\ errors' = NextErrors(formData, currentSection)
  /\ currentSection' = SectionAfterNext(currentSection, NextErrors(formData, currentSection))
  /\ notified' = << >>
  /\ lastOp' = "handleNext"
  /\ passed' = PassedAfter(passed, currentSection, NextErrors(formData, currentSection))
  /\ UNCHANGED << pageVars, timers, submitted, formData, agreeTerms, isSubmitting, payVars, dirVars >>

\* variant of SectionAfterPrevious: back to the first section
SectionAfterPreviousToFirst(section) == sectionAt(0)

\* handlePrevious: the section after the click
SectionAfterPrevious(section) ==
  IF findIndex(section) > 0 THEN sectionAt(findIndex(section) - 1) ELSE section

\* the Previous button is rendered on every section but eligibility
handlePrevious ==
  /\ FormMounted
  /\ currentSection # "eligibility"
  /\ currentSection' = SectionAfterPrevious(currentSection)
  /\ notified' = << >>
  /\ lastOp' = "handlePrevious"
  /\ UNCHANGED << pageVars, timers,
                  formData, errors, agreeTerms, isSubmitting, passed,
                  submitted, payVars, dirVars >>

\* breadcrumb button: the section after a click on the button at index
SectionAfterBreadcrumb(section, index) ==
  IF index <= findIndex(section) THEN sectionAt(index) ELSE section

breadcrumbClick(index) ==
  /\ FormMounted
  /\ currentSection' = SectionAfterBreadcrumb(currentSection, index)
  /\ notified' = << >>
  /\ lastOp' = "breadcrumbClick"
  /\ UNCHANGED << pageVars, timers,
                  formData, errors, agreeTerms, isSubmitting, passed,
                  submitted, payVars, dirVars >>

\* small-screen dropdown: the section after choosing the option at index
SectionAfterSelect(section, index) == sectionAt(index)

mobileSelect(index) ==
  /\ FormMounted
  /\ currentSection' = SectionAfterSelect(currentSection, index)
  /\ notified' = << >>
  /\ lastOp' = "mobileSelect"
  /\ UNCHANGED << pageVars, timers,
                  formData, errors, agreeTerms, isSubmitting, passed,
                  submitted, payVars, dirVars >>

(***************************************************************************)
(* ApplicationForm: submission.                                            *)
(***************************************************************************)
RECURSIVE ValidateSections(_, _)
ValidateSections(data, sections) ==
  IF sections = << >> THEN << >>
  ELSE (IF Head(sections) # "review" /\ Head(sections) # "terms"
        THEN validateApplicationForm(data, Head(sections))
        ELSE << >>)
       \o ValidateSections(data, Tail(sections))

\* variant of SubmitErrors: the terms flag is not checked
SubmitErrorsNoTerms(data, terms) == ValidateSections(data, formSections)

\* handleSubmit: allErrors
SubmitErrors(data, terms) ==
  ValidateSections(data, formSections)
    \o (IF ~terms THEN << FormError("terms", MsgTerms) >> ELSE << >>)

Undefined == "undefined"

\* handleSubmit: formSections.find(...), the first section with errors
FirstErrorSection(data, allErrors) ==
  LET hit(i) == \E k \in 1..Len(allErrors) :
                  SomeField(validateApplicationForm(data, formSections[i]),
                            allErrors[k].field)
  IN  IF \E i \in 1..Len(formSections) : hit(i)
      THEN formSections[CHOOSE i \in 1..Len(formSections) :
                          hit(i) /\ \A j \in 1..(i - 1) : ~hit(j)]
      ELSE Undefined

\* handleSubmit: the jump to the first section with errors is taken
JumpsOnError(section, target) == target # Undefined /\ target # section

\* variant of SubmitButtonEnabled: the button is never disabled
SubmitButtonAlwaysEnabled(section, submitting) == section = "review"

\* the Submit button: rendered on review, disabled={isSubmitting}
SubmitButtonEnabled(section, submitting) == section = "review" /\ ~submitting

handleSubmit ==
  LET allErrors == SubmitErrors(formData, agreeTerms)
      target == FirstErrorSection(formData, allErrors)
  IN  /\ FormMounted
      /\ SubmitButtonEnabled(currentSection, isSubmitting)
      /\ errors' = allErrors
      /\ lastOp' = "handleSubmit"
      /\ IF Len(allErrors) = 0
         THEN /\ Len(timers) < MaxTimers
              /\ isSubmitting' = TRUE
              /\ timers' = AddSubmitTimer(timers)
              /\ notified' = << >>
              /\ UNCHANGED currentSection
         ELSE /\ currentSection' = IF JumpsOnError(currentSection, target)
                                   THEN target ELSE currentSection
              /\ notified' = IF JumpsOnError(currentSection, target)
                             THEN << "error" >> ELSE << >>
              /\ UNCHANGED << isSubmitting, timers >>
      /\ UNCHANGED << pageVars, formData, agreeTerms, passed, submitted, payVars,
                        dirVars >>

(***************************************************************************)
(* PaymentForm.                                                            *)
(***************************************************************************)
PaymentFields ==
  { "cardNumber", "expiryDate", "cvv", "name", "bankName", "accountNumber",
    "routingNumber", "emailAddress", "amount" }

\* useState('') for every text field, useState('250') for the amount
InitialPayment ==
  [ f \in PaymentFields |-> IF f = "amount" THEN << "2", "5", "0" >> ELSE << >> ]

PaymentMethods == { "card", "paypal", "bank" }

\* the payment form is rendered
PayMounted(st) == st = "payment"

IsDigit(c) == \E d \in 1..Len(Digits) : Digits[d] = c

\* value.replace(/\D/g, '')
OnlyDigits(s) == SelectSeq(s, IsDigit)

\* the number written by a run of digits
RECURSIVE DigitsToNat(_)
DigitsToNat(s) ==
  IF s = << >> THEN 0
  ELSE 10 * DigitsToNat(SubSeq(s, 1, Len(s) - 1))
            + (CHOOSE d \in 1..Len(Digits) : Digits[d] = s[Len(s)]) - 1

\* groups of four digits separated by one space
RECURSIVE formatCardNumber(_)
formatCardNumber(digits) ==
  IF Len(digits) <= 4 THEN digits
  ELSE SubSeq(digits, 1, 4) \o << " " >> \o formatCardNumber(SubSeq(digits, 5, Len(digits)))

\* MM/YY: a slash after the second digit once a third one is typed
formatExpiryDate(value) ==
  LET d == OnlyDigits(value)
  IN  IF Len(d) >= 3 THEN SubSeq(d, 1, 2) \o << "/" >> \o SubSeq(d, 3, Len(d)) ELSE d

\* MM/YY with a month of 1..12 that has not elapsed
ExpiryValid(e) ==
  /\ Len(e) = 5
  /\ e[3] = "/"
  /\ \A k \in { 1, 2, 4, 5 } : IsDigit(e[k])
  /\ LET month == DigitsToNat(SubSeq(e, 1, 2))
         year == 2000 + DigitsToNat(SubSeq(e, 4, 5))
     IN  /\ month >= 1
         /\ month <= 12
         /\ year > Today[1] \/ (year = Today[1] /\ month >= Today[2])

\* validatePaymentForm({ cardNumber, expiryDate, cvv, name }) -> FormError[]
validatePaymentForm(data) ==
  (IF Len(OnlyDigits(data["cardNumber"])) # 16
   THEN << FormError("cardNumber", "Please enter a valid 16-digit card number") >> ELSE << >>)
  \o (IF ~ExpiryValid(data["expiryDate"])
      THEN << FormError("expiryDate", "Please enter a valid expiry date (MM/YY)") >> ELSE << >>)
  \o (IF ~(/\ \A k \in 1..Len(data["cvv"]) : IsDigit(data["cvv"][k])
           /\ Len(data["cvv"]) >= 3
           /\ Len(data["cvv"]) <= 4)
      THEN << FormError("cvv", "Please enter a valid CVV") >> ELSE << >>)
  \o (IF Trim(data["name"]) = << >>
      THEN << FormError("name", "Cardholder name is required") >> ELSE << >>)

\* handleCardNumberChange
CardNumberAfter(value) ==
  LET d == OnlyDigits(value)
  IN  formatCardNumber(SubSeq(d, 1, IF Len(d) < 16 THEN Len(d) ELSE 16))

\* handleExpiryDateChange
ExpiryAfter(old, value) ==
  LET Kept(c) == IsDigit(c) \/ c = "/"
      v == SelectSeq(value, Kept)
  IN  IF Len(v) <= 5 THEN formatExpiryDate(v) ELSE old

\* handleCVVChange
CvvAfter(old, value) ==
  IF Len(OnlyDigits(value)) <= 4 THEN OnlyDigits(value) ELSE old

\* variant of AmountFormat: any number of digits after the point
AmountFormatAnyDecimals(v) ==
  \E i \in 0..Len(v) :
    /\ \A k \in 1..i : IsDigit(v[k])
    /\ \E j \in { i, i + 1 } :
         /\ j <= Len(v)
         /\ j = i + 1 => v[j] = "."
         /\ \A k \in (j + 1)..Len(v) : IsDigit(v[k])

\* /^\d*\.?\d{0,2}$/.test(value)
AmountFormat(v) ==
  \E i \in 0..Len(v) :
    /\ \A k \in 1..i : IsDigit(v[k])
    /\ \E j \in { i, i + 1 } :
         /\ j <= Len(v)
         /\ j = i + 1 => v[j] = "."
         /\ Len(v) - j <= 2
         /\ \A k \in (j + 1)..Len(v) : IsDigit(v[k])

\* handleAmountChange
AmountAfter(old, value) ==
  LET Kept(c) == IsDigit(c) \/ c = "."
      v == SelectSeq(value, Kept)
  IN  IF AmountFormat(v) THEN v ELSE old

\* the text field a change event of the payment form writes
PaymentAfter(data, field, value) ==
  [ data EXCEPT ![field] =
      CASE field = "cardNumber" -> CardNumberAfter(value)
        [] field = "expiryDate" -> ExpiryAfter(data[field], value)
        [] field = "cvv" -> CvvAfter(data[field], value)
        [] field = "amount" -> AmountAfter(data[field], value)
        [] OTHER -> value ]

\* the tab that shows the input of a field
PaymentFieldShown(field, method) ==
  CASE field = "amount" -> TRUE
    [] field \in { "cardNumber", "expiryDate", "cvv", "name" } -> method = "card"
    [] field = "emailAddress" -> method = "paypal"
    [] OTHER -> method = "bank"

\* the onChange handlers of the payment inputs
handlePaymentChange(field, value) ==
  /\ PayMounted(step)
  /\ PaymentFieldShown(field, paymentMethod)
  /\ payment' = PaymentAfter(payment, field, value)
  /\ notified' = << >>
  /\ lastOp' = "handlePaymentChange"
  /\ UNCHANGED << pageVars, timers, formVars, paymentMethod, paymentErrors,
                  isProcessing, processed, dirVars >>

\* <Tabs onValueChange={(value) => setPaymentMethod(value)}>
setPaymentMethod(method) ==
  /\ PayMounted(step)
  /\ method # paymentMethod
  /\ paymentMethod' = method
  /\ notified' = << >>
  /\ lastOp' = "setPaymentMethod"
  /\ UNCHANGED << pageVars, timers, formVars, payment, paymentErrors,
                  isProcessing, processed, dirVars >>

NaN == "NaN"

\* the longest prefix of digits with at most one decimal point
RECURSIVE FloatPrefix(_, _)
FloatPrefix(s, dotSeen) ==
  IF s = << >> THEN << >>
  ELSE IF IsDigit(Head(s)) THEN << Head(s) >> \o FloatPrefix(Tail(s), dotSeen)
  ELSE IF Head(s) = "." /\ ~dotSeen THEN << "." >> \o FloatPrefix(Tail(s), TRUE)
  ELSE << >>

\* parseFloat of a text without sign or exponent: NaN, or the number as
\* << mantissa, decimals >> (mantissa / 10^decimals)
parseFloat(s) ==
  LET p == FloatPrefix(TrimStart(s), FALSE)
      d == OnlyDigits(p)
      dot == IF \E k \in 1..Len(p) : p[k] = "."
             THEN CHOOSE k \in 1..Len(p) : p[k] = "." ELSE Len(p) + 1
  IN  IF d = << >> THEN NaN
      ELSE << DigitsToNat(d), IF dot > Len(p) THEN 0 ELSE Len(p) - dot >>

\* handleSubmit: amountErrors
AmountErrors(amount) ==
  IF Trim(amount) = << >> THEN << FormError("amount", "Amount is required") >>
  ELSE IF parseFloat(amount) = NaN \/ parseFloat(amount)[1] <= 0
       THEN << FormError("amount", "Please enter a valid amount greater than 0") >>
  ELSE << >>

\* handleSubmit: the errors of the bank tab
BankErrors(data) ==
  (IF Trim(data["bankName"]) = << >>
   THEN << FormError("bankName", "Bank name is required") >> ELSE << >>)
  \o (IF Trim(data["accountNumber"]) = << >>
      THEN << FormError("accountNumber", "Account number is required") >> ELSE << >>)
  \o (IF Trim(data["routingNumber"]) = << >>
      THEN << FormError("routingNumber", "Routing number is required") >> ELSE << >>)

\* handleSubmit: the errors of the PayPal tab
PaypalErrors(data) ==
  IF Trim(data["emailAddress"]) = << >>
  THEN << FormError("emailAddress", "Email address is required") >> ELSE << >>

\* what the user types into the payment form
CardTyped == << "4", "2", "4", "2", "4", "2", "4", "2", "4", "2", "4", "2", "4", "2", "4", "2" >>
ShortCardTyped == SubSeq(CardTyped, 1, 15)
ExpiryTyped == << "1", "2", "3", "0" >>
CvvTyped == << "1", "2", "3" >>

PaymentInputs ==
  { << "amount", Empty >>, << "amount", << "0" >> >>, << "amount", << "5" >> >>,
    << "cardNumber", CardTyped >>, << "cardNumber", ShortCardTyped >>,
    << "name", Word >>, << "name", Blank >>,
    << "emailAddress", Blank >>, << "emailAddress", GoodEmail >>,
    << "routingNumber", Word >>, << "routingNumber", Blank >> }

\* the payment form once the user has typed the expiry date, the CVV, the
\* bank name and the account number
TypedPayment ==
  [ InitialPayment EXCEPT !["expiryDate"] = ExpiryAfter(<< >>, ExpiryTyped),
                          !["cvv"] = CvvAfter(<< >>, CvvTyped),
                          !["bankName"] = Word,
                          !["accountNumber"] = Word ]

\* what the user types into the amount field
AmountInputs ==
  { Empty, << "0" >>, << "." >>, << "0", ".", "5" >>, << "0", ".", "0", "0" >>,
    << "1", ".", "2", "5" >>, << "1", ".", "2", "3", "4" >>, << "a", "5" >>,
    << "1", ".", "2", ".", "3" >>, << "-", "1" >>, Blank }

\* what the user types into the payment form in the page-flow specification
FlowPaymentInputs == { << "emailAddress", GoodEmail >> }

\* variant of MethodErrors: the PayPal tab is not checked
MethodErrorsNoPaypal(data, method) ==
  CASE method = "card" -> validatePaymentForm(data)
    [] method = "paypal" -> << >>
    [] method = "bank" -> BankErrors(data)

\* handleSubmit: the errors of the selected method
MethodErrors(data, method) ==
  CASE method = "card" -> validatePaymentForm(data)
    [] method = "paypal" -> PaypalErrors(data)
    [] method = "bank" -> BankErrors(data)

\* variant of PaymentStarts: processPayment() is called without the checks
PaymentStartsUnchecked(data, method) == TRUE

\* handleSubmit: processPayment() is reached
PaymentStarts(data, method) ==
  AmountErrors(data["amount"]) = << >> /\ MethodErrors(data, method) = << >>

\* handleSubmit: the error list after the call (the PayPal branch calls
\* setErrors only when the address is missing)
PaymentErrorsAfter(old, data, method) ==
  IF AmountErrors(data["amount"]) # << >> THEN AmountErrors(data["amount"])
  ELSE IF method = "paypal" /\ PaypalErrors(data) = << >> THEN old
  ELSE MethodErrors(data, method)

\* variant of PayButtonEnabled: the button is never disabled
PayButtonAlwaysEnabled(processing) == TRUE

\* the form's submit button: disabled={isProcessing}
PayButtonEnabled(processing) == ~processing

\* PaymentForm.handleSubmit with processPayment
paymentHandleSubmit ==
  /\ PayMounted(step)
  /\ PayButtonEnabled(isProcessing)
  /\ paymentErrors' = PaymentErrorsAfter(paymentErrors, payment, paymentMethod)
  /\ IF PaymentStarts(payment, paymentMethod)
     THEN /\ Len(timers) < MaxTimers
          /\ isProcessing' = TRUE
          /\ timers' = AddLongTimer(timers, "process")
     ELSE UNCHANGED << isProcessing, timers >>
  /\ notified' = << >>
  /\ lastOp' = "paymentHandleSubmit"
  /\ UNCHANGED << pageVars, formVars, paymentMethod, payment, processed, dirVars >>

(***************************************************************************)
(* DirectorApplicationForm.                                                *)
(***************************************************************************)
\* largest number of goToNextSection calls awaiting their validation
MaxPending == 2

dirSections ==
  << "contact", "background", "motivation", "business", "agreement",
     "profile", "country" >>

dirIndex(id) == CHOOSE i \in 1..Len(dirSections) : dirSections[i] = id

DirCheckboxFields == { "agreeToTerms", "agreeToConfidentiality" }

DirWordFields == { "bio", "countryOverview", "culturalInfo" }

DirTextFields ==
  { "fullName", "email", "phone", "country", "city", "workExperience",
    "education", "skills", "motivation", "goals", "strategy", "dateOfBirth",
    "socialMedia" } \cup DirWordFields

DirFields == DirTextFields \cup DirCheckboxFields

\* useForm({ defaultValues })
InitialDirValues ==
  [ f \in DirFields |-> IF f \in DirCheckboxFields THEN FALSE ELSE << >> ]

\* the director form is rendered
DirMounted(st, ty) == st = "application" /\ ty = "director"

\* z.string().min(n): the least length of a field, 0 where the schema sets none
MinLength(f) ==
  CASE f \in { "fullName", "country", "city", "dateOfBirth", "socialMedia" } -> 2
    [] f = "phone" -> 8
    [] f = "workExperience" -> 10
    [] f \in { "education", "skills" } -> 5
    [] f \in { "motivation", "goals" } -> 20
    [] f = "strategy" -> 50
    [] OTHER -> 0

\* z.string().max(2500) of bio, countryOverview and culturalInfo
MaxChars == 2500

\* directorFormSchema: the value of a field is rejected
DirFieldFails(values, f) ==
  CASE f \in DirCheckboxFields -> values[f] # TRUE
    [] f = "email" -> ~IsEmail(values[f])
    [] f \in DirWordFields -> Len(values[f]) > MaxChars
    [] OTHER -> Len(values[f]) < MinLength(f)

\* the fields goToNextSection passes to form.trigger
TriggerFields(section) ==
  CASE section = "contact" -> { "fullName", "email", "phone", "country", "city" }
    [] section = "background" -> { "workExperience", "education", "skills" }
    [] section = "motivation" -> { "motivation", "goals" }
    [] section = "business" -> { "strategy" }
    [] section = "agreement" -> { "agreeToTerms", "agreeToConfidentiality" }
    [] section = "profile" -> { "dateOfBirth", "bio", "socialMedia" }
    [] OTHER -> { }

\* the section whose markup renders the input of a field
DirFieldSection(f) ==
  IF f \in { "countryOverview", "culturalInfo" } THEN "country"
  ELSE CHOOSE sec \in { dirSections[i] : i \in 1..Len(dirSections) } :
         f \in TriggerFields(sec)

\* form.trigger(names): formState.errors afterwards
ErrorsAfterTrigger(errs, values, names) ==
  (errs \ names) \cup { f \in names : DirFieldFails(values, f) }

\* form.trigger(names): the promised result
TriggerResult(values, section) ==
  /\ section \in { dirSections[i] : i \in 1..(Len(dirSections) - 1) }
  /\ \A f \in TriggerFields(section) : ~DirFieldFails(values, f)

\* the words shown next to bio, countryOverview and culturalInfo:
\* value ? value.trim().split(/\s+/).filter(Boolean).length : 0
\* (the pieces that are left are the maximal runs without white space)
displayedWords(value) ==
  IF value = << >> THEN 0
  ELSE LET t == Trim(value)
       IN  Cardinality({ i \in 1..Len(t) :
                           ~IsSpace(t[i]) /\ (i = 1 \/ IsSpace(t[i - 1])) })

\* what the user types into the director form
Repeat(c, n) == [ i \in 1..n |-> c ]

\* 501 one-letter words separated by single spaces: 1001 characters
ManyWords == [ i \in 1..1001 |-> IF i % 2 = 1 THEN "a" ELSE " " ]

\* one word of 2501 letters
LongWord == Repeat("a", 2501)

\* the date as an <input type="date"> reports it
DateText == << "2", "0", "0", "0", "-", "0", "1", "-", "0", "1" >>

\* the director form with every field filled in by the user
FilledDirValues ==
  [ f \in DirFields |->
      CASE f \in DirCheckboxFields -> TRUE
        [] f = "email" -> GoodEmail
        [] f = "dateOfBirth" -> DateText
        [] f \in DirWordFields -> Word
        [] OTHER -> Repeat("a", MinLength(f)) ]

DirInputs ==
  { << "fullName", Empty >>, << "fullName", Repeat(" ", 2) >>,
    << "fullName", Repeat("a", 2) >>,
    << "bio", Empty >>, << "bio", Word >>, << "bio", ManyWords >>,
    << "bio", LongWord >> }

\* an input of the director form changes (mode: 'onChange' validates it)
dirFieldChange(field, value) ==
  /\ DirMounted(step, applicationType)
  /\ dirSection = DirFieldSection(field)
  /\ dirValues' = [ dirValues EXCEPT ![field] = value ]
  /\ dirErrors' = ErrorsAfterTrigger(dirErrors, dirValues', { field })
  /\ notified' = << >>
  /\ lastOp' = "dirFieldChange"
  /\ UNCHANGED << pageVars, timers, formVars, payVars, dirSection, dirPending >>

\* goToNextSection up to its await: the closure's section and the result
\* of form.trigger are kept for the continuation
goToNextSection ==
  /\ DirMounted(step, applicationType)
  /\ dirSection # "country"
  /\ Len(dirPending) < MaxPending
  /\ dirErrors' = ErrorsAfterTrigger(dirErrors, dirValues, TriggerFields(dirSection))
  /\ dirPending' = Append(dirPending,
                          [ on |-> dirSection,
                            ok |-> TriggerResult(dirValues, dirSection),
                            live |-> TRUE ])
  /\ notified' = << >>
  /\ lastOp' = "goToNextSection"
  /\ UNCHANGED << pageVars, timers, formVars, payVars, dirSection, dirValues >>

\* goToNextSection: the section set after a successful validation
DirSectionAfterNext(on) ==
  IF dirIndex(on) < Len(dirSections) THEN dirSections[dirIndex(on) + 1] ELSE on

\* goToNextSection after its await
goToNextResumes ==
  /\ dirPending # << >>
  /\ dirPending' = Tail(dirPending)
  /\ dirSection' = IF Head(dirPending).ok /\ Head(dirPending).live
                   THEN DirSectionAfterNext(Head(dirPending).on)
                   ELSE dirSection
  /\ notified' = IF Head(dirPending).ok THEN << >> ELSE << "error" >>
  /\ lastOp' = "goToNextResumes"
  /\ UNCHANGED << pageVars, timers, formVars, payVars, dirValues, dirErrors >>

\* goToPrevSection: the section after the click
DirSectionAfterPrev(section) ==
  IF dirIndex(section) > 1 THEN dirSections[dirIndex(section) - 1] ELSE section

\* the Previous button is rendered on every section but contact and country
goToPrevSection ==
  /\ DirMounted(step, applicationType)
  /\ dirSection \notin { "contact", "country" }
  /\ dirSection' = DirSectionAfterPrev(dirSection)
  /\ notified' = << >>
  /\ lastOp' = "goToPrevSection"
  /\ UNCHANGED << pageVars, timers, formVars, payVars, dirValues, dirErrors, dirPending >>

\* form.handleSubmit: the fields the resolver rejects
DirSubmitErrors(values) == { f \in DirFields : DirFieldFails(values, f) }

\* the Submit Application button of the last section: form.handleSubmit(onSubmit)
\* validates every field and calls onSubmit only without errors; onSubmit
\* raises its toast and calls onSubmitSuccess (handleApplicationSuccess)
dirSubmit ==
  /\ DirMounted(step, applicationType)
  /\ dirSection = "country"
  /\ dirErrors' = DirSubmitErrors(dirValues)
  /\ IF DirSubmitErrors(dirValues) = { }
     THEN /\ Len(timers) < MaxTimers
          /\ transition' = TRUE
          /\ timers' \in AddReactionTimer(timers, "appSuccess", 1)
          /\ notified' = << "success" >>
     ELSE /\ notified' = << >>
          /\ UNCHANGED << transition, timers >>
  /\ lastOp' = "dirSubmit"
  /\ UNCHANGED << step, applicationType, formVars, payVars, dirSection, dirValues,
                  dirPending >>

(***************************************************************************)
(* Index: the click handlers of the top-level page.  Each one sets the     *)
(* fade flag and starts a 300 ms timer.                                    *)
(***************************************************************************)
StartPageTimer(kind) ==
  /\ Len(timers) < MaxTimers
  /\ transition' = TRUE
  /\ timers' \in AddShortTimer(timers, kind)

\* 'Apply as Participant' / 'Apply as Director', rendered on step 'select'
handleSelectType(type) ==
  /\ step = "select"
  /\ applicationType' = type
  /\ StartPageTimer("selectType")
  /\ notified' = << >>
  /\ lastOp' = "handleSelectType"
  /\ UNCHANGED << step, formVars, payVars, dirVars >>

\* 'Back to selection', rendered above either application form
handleBackToSelection ==
  /\ step = "application"
  /\ applicationType \in { "participant", "director" }
  /\ StartPageTimer("backToSel")
  /\ notified' = << >>
  /\ lastOp' = "handleBackToSelection"
  /\ UNCHANGED << step, applicationType, formVars, payVars, dirVars >>

\* the form's own back button: onClick={onBack}
handleBackToApplication ==
  /\ FormMounted
  /\ StartPageTimer("backToApp")
  /\ notified' = << >>
  /\ lastOp' = "handleBackToApplication"
  /\ UNCHANGED << step, applicationType, formVars, payVars, dirVars >>

(***************************************************************************)
(* Timer callbacks.                                                        *)
(***************************************************************************)
\* the pending continuations of an unmounted director form still run
Abandoned(pending) == [ i \in 1..Len(pending) |-> [ pending[i] EXCEPT !.live = FALSE ] ]

\* the effect of setStep / setApplicationType on the three forms: a form
\* keeps its state while it stays rendered, a form rendered anew starts
\* from its initial state, and an unmounted form leaves its timers behind
Render(newStep, newType) ==
  /\ step' = newStep
  /\ applicationType' = newType
  /\ IF FormMounted /\ Mounted(newStep, newType)
     THEN UNCHANGED formVars
     ELSE /\ currentSection' = "eligibility"
          /\ formData' = InitialFormData
          /\ errors' = << >>
          /\ agreeTerms' = FALSE
          /\ isSubmitting' = FALSE
          /\ passed' = { }
          /\ submitted' = FALSE
  /\ IF PayMounted(step) /\ PayMounted(newStep)
     THEN UNCHANGED << paymentMethod, payment, paymentErrors, isProcessing >>
     ELSE /\ paymentMethod' = "card"
          /\ payment' = InitialPayment
          /\ paymentErrors' = << >>
          /\ isProcessing' = FALSE
  /\ IF DirMounted(step, applicationType) /\ DirMounted(newStep, newType)
     THEN UNCHANGED dirVars
     ELSE /\ dirSection' = "contact"
          /\ dirValues' = InitialDirValues
          /\ dirErrors' = { }
          /\ dirPending' = Abandoned(dirPending)
  /\ timers' =
       LET rest == AfterFiring(timers)
           left == IF FormMounted /\ ~Mounted(newStep, newType)
                   THEN Orphaned(rest) ELSE rest
       IN  IF PayMounted(step) /\ ~PayMounted(newStep)
           THEN OrphanedKind(left, "process") ELSE left
  /\ UNCHANGED processed

HeadIs(kind) == timers # << >> /\ Head(timers).kind = kind

\* handleSubmit: the callback of setTimeout(..., 2000)
submitTimerFires ==
  /\ HeadIs("submit")
  /\ isSubmitting' = IF Head(timers).live THEN FALSE ELSE isSubmitting
  /\ submitted' = (submitted \/ Head(timers).live)
  \* onSubmitSuccess() is handleApplicationSuccess
  /\ transition' = TRUE
  /\ timers' \in AddReactionTimer(AfterFiring(timers), "appSuccess", Head(timers).said + 1)
  /\ notified' = << "success" >>
  /\ lastOp' = "submitTimerFires"
  /\ UNCHANGED << step, applicationType, currentSection, formData, errors, agreeTerms,
                  passed, payVars, dirVars >>

\* variant of StepSetBy: a received application stays on the form
StepSetByNoPayment(kind) ==
  CASE kind = "appSuccess" -> "application"
    [] kind = "paySuccess" -> "success"
    [] kind = "backToApp" -> "application"
    [] kind = "backToSel" -> "select"
    [] kind = "selectType" -> "application"

\* the step a page timer sets
StepSetBy(kind) ==
  CASE kind = "appSuccess" -> "payment"
    [] kind = "paySuccess" -> "success"
    [] kind = "backToApp" -> "application"
    [] kind = "backToSel" -> "select"
    [] kind = "selectType" -> "application"

\* handleApplicationSuccess: the callback of setTimeout(..., 300)
appSuccessTimerFires ==
  /\ HeadIs("appSuccess")
  /\ Render(StepSetBy("appSuccess"), applicationType)
  /\ transition' = FALSE
  /\ notified' = << "success" >>
  /\ lastOp' = "appSuccessTimerFires"

\* handleBackToApplication: the callback of setTimeout(..., 300)
backToAppTimerFires ==
  /\ HeadIs("backToApp")
  /\ Render(StepSetBy("backToApp"), applicationType)
  /\ transition' = FALSE
  /\ notified' = << >>
  /\ lastOp' = "backToAppTimerFires"

\* handleBackToSelection: the callback of setTimeout(..., 300)
backToSelTimerFires ==
  /\ HeadIs("backToSel")
  /\ Render(StepSetBy("backToSel"), "none")
  /\ transition' = FALSE
  /\ notified' = << >>
  /\ lastOp' = "backToSelTimerFires"

\* handleSelectType: the callback of setTimeout(..., 300)
selectTypeTimerFires ==
  /\ HeadIs("selectType")
  /\ Render(StepSetBy("selectType"), applicationType)
  /\ transition' = FALSE
  /\ notified' = << "success" >>
  /\ lastOp' = "selectTypeTimerFires"

\* processPayment: the callback of setTimeout(..., 2000)
processTimerFires ==
  /\ HeadIs("process")
  /\ isProcessing' = IF Head(timers).live THEN FALSE ELSE isProcessing
  /\ processed' = TRUE
  \* onPaymentSuccess() is handlePaymentSuccess
  /\ transition' = TRUE
  /\ timers' \in AddReactionTimer(AfterFiring(timers), "paySuccess", Head(timers).said)
  /\ notified' = << >>
  /\ lastOp' = "processTimerFires"
  /\ UNCHANGED << step, applicationType, formVars, paymentMethod, payment,
                  paymentErrors, dirVars >>

\* handlePaymentSuccess: the callback of setTimeout(..., 300)
paySuccessTimerFires ==
  /\ HeadIs("paySuccess")
  /\ Render(StepSetBy("paySuccess"), applicationType)
  /\ transition' = FALSE
  /\ notified' = << "success" >>
  /\ lastOp' = "paySuccessTimerFires"

TimerFires ==
  \/ submitTimerFires
  \/ appSuccessTimerFires
  \/ backToAppTimerFires
  \/ backToSelTimerFires
  \/ selectTypeTimerFires
  \/ processTimerFires
  \/ paySuccessTimerFires

(***************************************************************************)
(* Specifications.                                                         *)
(***************************************************************************)
\* the payment form as rendered anew
FreshPayment ==
  /\ paymentMethod = "card"
  /\ payment = InitialPayment
  /\ paymentErrors = << >>
  /\ isProcessing = FALSE
  /\ processed = FALSE

\* the director form as rendered anew
FreshDirector ==
  /\ dirSection = "contact"
  /\ dirValues = InitialDirValues
  /\ dirErrors = { }
  /\ dirPending = << >>

\* the wizard: a participant fills in, walks through and submits the form
WizardInit ==
  /\ InitFilled
  /\ FreshForm
  /\ FreshPayment
  /\ FreshDirector
  /\ transition = FALSE
  /\ timers = << >>
  /\ notified = << >>
  /\ lastOp = "init"

WizardNext ==
  \/ \E in \in TextInputs : handleFieldChange(in[1], in[2])
  \/ \E in \in CheckboxInputs : handleCheckboxChange(in[1], in[2])
  \/ \E in \in FileInputs : handleFileChange(in[1], in[2])
  \/ toggleAgreeTerms
  \/ handleNext
  \/ handlePrevious
  \/ \E index \in 0..(Len(formSections) - 1) : breadcrumbClick(index)
  \/ \E index \in 0..(Len(formSections) - 1) : mobileSelect(index)
  \/ handleSubmit
  \/ submitTimerFires
  \/ appSuccessTimerFires

Spec == WizardInit /\ [][WizardNext]_vars

\* editing: names and dates of birth are typed and the sections walked
EditNext ==
  \/ \E f \in NameFields, v \in NameValues : handleFieldChange(f, v)
  \/ \E d \in BoundaryDobs \cup { NoDate } : handleFieldChange("dateOfBirth", d)
  \/ handleNext
  \/ handlePrevious

EditSpec == WizardInit /\ [][EditNext]_vars

\* the page flow: selection, application, submission, with every timer
Init ==
  /\ InitPage \/ InitFilled
  /\ FreshForm
  /\ FreshPayment
  /\ FreshDirector
  /\ transition = FALSE
  /\ timers = << >>
  /\ notified = << >>
  /\ lastOp = "init"

Next ==
  \/ toggleAgreeTerms
  \/ handlePrevious
  \/ \E index \in FlowSections : mobileSelect(index)
  \/ handleSubmit
  \/ \E type \in { "participant", "director" } : handleSelectType(type)
  \/ handleBackToSelection
  \/ handleBackToApplication
  \/ \E in \in FlowPaymentInputs : handlePaymentChange(in[1], in[2])
  \/ \E method \in { "card", "paypal" } : setPaymentMethod(method)
  \/ paymentHandleSubmit
  \/ TimerFires

FlowSpec == Init /\ [][Next]_vars

\* timers fire: the event loop runs every pending callback
LiveFlowSpec == FlowSpec /\ WF_vars(TimerFires)

\* a new session: the participant form as rendered anew, the user ticks
\* the eligibility boxes and moves between the sections
ReachInit ==
  /\ step = "application"
  /\ applicationType = "participant"
  /\ formData = InitialFormData
  /\ passed = { }
  /\ FreshForm
  /\ FreshPayment
  /\ FreshDirector
  /\ transition = FALSE
  /\ timers = << >>
  /\ notified = << "success" >>
  /\ lastOp = "selectTypeTimerFires"

ReachNext ==
  \/ \E f \in CheckboxFields : handleCheckboxChange(f, TRUE)
  \/ \E in \in CheckboxInputs : handleCheckboxChange(in[1], in[2])
  \/ handleNext
  \/ handlePrevious
  \/ \E index \in 0..(Len(formSections) - 1) : breadcrumbClick(index)
  \/ \E index \in 0..(Len(formSections) - 1) : mobileSelect(index)

ReachSpec == ReachInit /\ [][ReachNext]_vars

\* the director form: the user edits, walks through and submits it
DirectorInit ==
  /\ step = "application"
  /\ applicationType = "director"
  /\ formData = InitialFormData
  /\ passed = { }
  /\ FreshForm
  /\ FreshPayment
  /\ dirSection = "contact"
  /\ dirValues = FilledDirValues
  /\ dirErrors = { }
  /\ dirPending = << >>
  /\ transition = FALSE
  /\ timers = << >>
  /\ notified = << >>
  /\ lastOp = "dirFieldChange"

DirectorNext ==
  \/ \E in \in DirInputs : dirFieldChange(in[1], in[2])
  \/ goToNextSection
  \/ goToNextResumes
  \/ goToPrevSection
  \/ dirSubmit
  \/ appSuccessTimerFires

DirectorSpec == DirectorInit /\ [][DirectorNext]_vars

\* the payment step: the user is filling in the payment form
PaymentInit ==
  /\ step = "payment"
  /\ applicationType = "participant"
  /\ formData = InitialFormData
  /\ passed = { }
  /\ FreshForm
  /\ paymentMethod = "card"
  /\ payment = TypedPayment
  /\ paymentErrors = << >>
  /\ isProcessing = FALSE
  /\ processed = FALSE
  /\ FreshDirector
  /\ transition = FALSE
  /\ timers = << >>
  /\ notified = << >>
  /\ lastOp = "handlePaymentChange"

PaymentNext ==
  \/ \E in \in PaymentInputs : handlePaymentChange(in[1], in[2])
  \/ \E method \in PaymentMethods : setPaymentMethod(method)
  \/ paymentHandleSubmit
  \/ processTimerFires
  \/ paySuccessTimerFires

PaymentSpec == PaymentInit /\ [][PaymentNext]_vars

\* the amount field: the user edits the amount, picks a method and pays
AmountNext ==
  \/ \E value \in AmountInputs : handlePaymentChange("amount", value)
  \/ \E in \in FlowPaymentInputs : handlePaymentChange(in[1], in[2])
  \/ \E method \in PaymentMethods : setPaymentMethod(method)
  \/ paymentHandleSubmit
  \/ processTimerFires
  \/ paySuccessTimerFires

AmountSpec == PaymentInit /\ [][AmountNext]_vars

TypeOK ==
  /\ step \in { "select", "application", "payment", "success" }
  /\ applicationType \in { "none", "participant", "director" }
  /\ transition \in BOOLEAN
  /\ Len(timers) <= MaxTimers
  /\ currentSection \in SectionIds
  /\ agreeTerms \in BOOLEAN
  /\ isSubmitting \in BOOLEAN

(***************************************************************************)
(* Properties of the participant wizard.                                   *)
(***************************************************************************)
SectionValid(data, section) == validateApplicationForm(data, section) = << >>

AgeAccepted(data) ==
  data["dateOfBirth"] # << >> =>
    (calculateAge(data["dateOfBirth"]) >= 18 /\ calculateAge(data["dateOfBirth"]) <= 35)

\* what advance() must find to let the user pass the section
AdvanceAllowed(data, section) ==
  SectionValid(data, section) /\ (section = "eligibility" => AgeAccepted(data))

\* C1: handleNext changes the active section only when the validation of
\* the current section, with the 18-35 age check on eligibility, finds no
\* error; it then moves to exactly the next section of formSections, and on
\* the last section it stays put.
C1_AdvanceOnlyWhenValid ==
  [][ lastOp' = "handleNext" =>
        /\ currentSection' # currentSection =>
             /\ AdvanceAllowed(formData, currentSection)
             /\ findIndex(currentSection') = findIndex(currentSection) + 1
        /\ SectionAfterNext("review", << >>) = "review" ]_vars

C1_Witness ==
  /\ lastOp = "handleNext"
  /\ currentSection = "contact"
  /\ formData["dateOfBirth"] = DobIn

\* C2: every section selector of the navigation UI (breadcrumb buttons and
\* the small-screen dropdown) that targets a section after the active one
\* leaves the active section unchanged.
C2_ForwardJumpRejected ==
  [][ lastOp' \in { "breadcrumbClick", "mobileSelect" } =>
        findIndex(currentSection') <= findIndex(currentSection) ]_vars

\* every section but review passes validation and the terms are agreed
ReadyToSubmit(data, terms) ==
  /\ \A section \in SectionIds \ { "review" } : SectionValid(data, section)
  /\ terms

\* C3: handleSubmit enters Submitting (isSubmitting true, the gateway timer
\* started) only if every section other than review validates and the terms
\* flag is true; otherwise no timer is started and isSubmitting stays false.
C3_SubmitOnlyWhenValid ==
  [][ lastOp' = "handleSubmit" =>
        IF ReadyToSubmit(formData, agreeTerms)
        THEN /\ isSubmitting'
             /\ Len(timers') = Len(timers) + 1
             /\ PendingSubmits(timers') = PendingSubmits(timers) + 1
        ELSE ~isSubmitting' /\ timers' = timers ]_vars

C3_Witness ==
  /\ lastOp = "handleSubmit"
  /\ isSubmitting
  /\ PendingSubmits(timers) = 1

\* the sections that show the input (and the error) of a field
OwnerSections(f) == IF f = "terms" THEN { "terms" } ELSE FieldSections(f)

OwnsFailing(section, errs) ==
  \E k \in 1..Len(errs) : section \in OwnerSections(errs[k].field)

\* C4: when handleSubmit finds errors, the displayed errors are that list
\* and the active section becomes the earliest section owning one of the
\* failing fields.
C4_JumpToEarliestOwner ==
  [][ (lastOp' = "handleSubmit" /\ ~ReadyToSubmit(formData, agreeTerms)) =>
        /\ errors' = SubmitErrors(formData, agreeTerms)
        /\ OwnsFailing(currentSection', errors')
        /\ \A i \in 0..(findIndex(currentSection') - 1) :
             ~OwnsFailing(sectionAt(i), errors') ]_vars

\* C5: every handleSubmit that finds errors raises an error notification.
C5_ErrorsAreNotified ==
  [][ (lastOp' = "handleSubmit" /\ errors' # << >>) =>
        notified' = << "error" >> ]_vars

\* C6: while isSubmitting is true the active section does not change.
C6_NoNavigationWhileSubmitting ==
  [][ (isSubmitting /\ isSubmitting') => currentSection' = currentSection ]_vars

\* C7: while isSubmitting is true no second gateway timer is started: the
\* mounted form has a pending submission timer exactly when isSubmitting is
\* true, and never more than one.
C7_OneSubmissionTimer ==
  /\ PendingSubmits(timers) <= 1
  /\ isSubmitting <=> PendingSubmits(timers) = 1

C7_Witness ==
  /\ isSubmitting
  /\ currentSection = "review"
  /\ lastOp # "handleSubmit"

SubmitTimers(ts) == { i \in 1..Len(ts) : ts[i].kind = "submit" }

\* C8: once a submission is outstanding its timer fires, exactly once:
\* isSubmitting is false again, onSubmitSuccess has run (the page's 300 ms
\* timer is pending), a success toast is shown, and the step becomes
\* 'payment'.
C8_SubmissionCompletes ==
  /\ (SubmitTimers(timers) # { }) ~>
        /\ lastOp = "submitTimerFires"
        /\ notified = << "success" >>
        /\ ~isSubmitting
        /\ \E i \in 1..Len(timers) : timers[i].kind = "appSuccess"
  /\ (SubmitTimers(timers) # { }) ~> (step = "payment")
  /\ isSubmitting ~> ~isSubmitting
  /\ [][ lastOp' = "submitTimerFires" =>
           Cardinality(SubmitTimers(timers')) = Cardinality(SubmitTimers(timers)) - 1 ]_vars

C8_Witness ==
  /\ step = "payment"
  /\ lastOp = "appSuccessTimerFires"

\* C9: handleNext displays exactly the validation result of the current
\* section, in rule order; with an error the section stays, with none the
\* displayed list is empty.
C9_AdvanceShowsResult ==
  [][ lastOp' = "handleNext" =>
        /\ errors' = validateApplicationForm(formData, currentSection)
                       \o (IF currentSection = "eligibility" /\ ~AgeAccepted(formData)
                           THEN << FormError("dateOfBirth", MsgAge) >> ELSE << >>)
        /\ errors' # << >> => currentSection' = currentSection
        /\ AdvanceAllowed(formData, currentSection) => errors' = << >> ]_vars

C9_Witness ==
  /\ lastOp = "handleNext"
  /\ currentSection = "eligibility"
  /\ Len(errors) = 2

\* C10: handlePrevious is accepted on every section that has a predecessor,
\* moves to exactly the preceding section, validates nothing (an empty
\* error list stays empty) and leaves the record and the terms flag alone.
C10_RetreatAlwaysAllowed ==
  /\ []((FormMounted /\ findIndex(currentSection) > 0) => ENABLED handlePrevious)
  /\ [][ lastOp' = "handlePrevious" =>
           /\ findIndex(currentSection') = findIndex(currentSection) - 1
           /\ errors = << >> => errors' = << >>
           /\ formData' = formData
           /\ agreeTerms' = agreeTerms ]_vars

C10_Witness ==
  /\ lastOp = "handlePrevious"
  /\ currentSection = "motivation"
  /\ formData["strategy"] = << >>
  /\ errors = << >>

\* C11: after a backward navigation of the participant form (handlePrevious,
\* or a breadcrumb click that moves to an earlier section) the displayed
\* error list is empty.
C11_BackwardClearsErrors ==
  [][ (\/ lastOp' = "handlePrevious"
       \/ /\ lastOp' = "breadcrumbClick"
          /\ findIndex(currentSection') < findIndex(currentSection))
      => errors' = << >> ]_vars

\* the toasts raised before this step by the user action it belongs to
SaidBefore ==
  IF lastOp' \in { "submitTimerFires", "appSuccessTimerFires" }
  THEN Head(timers).said ELSE 0

\* C12: an advance or a submit raises at most one toast, the toasts of the
\* form and those of the page's reaction to it counted together.
C12_AtMostOneToast ==
  [][ lastOp' \in { "handleNext", "handleSubmit", "submitTimerFires",
                    "appSuccessTimerFires", "goToNextResumes", "dirSubmit" }
      => SaidBefore + Len(notified') <= 1 ]_vars

\* C14: after an edit of dateOfBirth the age agrees with it: the age of the
\* date entered, and empty when the date was cleared.
C14_AgeFollowsDateOfBirth ==
  [][ (lastOp' = "handleFieldChange" /\ formData'["dateOfBirth"] # formData["dateOfBirth"])
      => formData'["age"] =
           IF formData'["dateOfBirth"] = NoDate THEN Empty
           ELSE NatToText(calculateAge(formData'["dateOfBirth"])) ]_vars

\* no leading, trailing or double space
NoStraySpaces(t) ==
  /\ t # << >> => (t[1] # " " /\ t[Len(t)] # " ")
  /\ \A k \in 1..(Len(t) - 1) : ~(t[k] = " " /\ t[k + 1] = " ")

\* C13: after every edit of a name field, fullName is the non-empty parts in
\* first/middle/last order joined by single spaces, without leading,
\* trailing or double spaces.
C13_FullNameJoined ==
  [][ (lastOp' = "handleFieldChange"
       /\ \E f \in NameFields : formData'[f] # formData[f])
      => /\ formData'["fullName"] =
              JoinSpace(SelectSeq(<< formData'["firstName"], formData'["middleName"],
                                     formData'["lastName"] >>, NonEmptyText))
         /\ NoStraySpaces(formData'["fullName"]) ]_vars

HasAgeError(errs) ==
  \E k \in 1..Len(errs) : errs[k] = FormError("dateOfBirth", MsgAge)

\* C15: handleNext on eligibility with a date of birth giving age 18 or 35
\* raises no age-range error; with age 17 or 36 it raises the error on
\* dateOfBirth with the range message and the section stays.
C15_AgeGateBoundaries ==
  /\ calculateAge(DobIn) = 18 /\ calculateAge(Dob35) = 35
  /\ calculateAge(DobOut) = 17 /\ calculateAge(Dob36) = 36
  /\ [][ (lastOp' = "handleNext" /\ currentSection = "eligibility") =>
           /\ formData["dateOfBirth"] \in { DobIn, Dob35 } => ~HasAgeError(errors')
           /\ formData["dateOfBirth"] \in { DobOut, Dob36 } =>
                /\ HasAgeError(errors')
                /\ currentSection' = "eligibility" ]_vars

C15_Witness ==
  /\ lastOp = "handleNext"
  /\ currentSection = "contact"
  /\ formData["dateOfBirth"] = Dob35
  /\ errors = << >>

TimersOf(ts, k) == { i \in 1..Len(ts) : ts[i].kind = k }

\* C16: the step becomes 'success' only in the callback of
\* handlePaymentSuccess, which only a payment processing callback starts,
\* which only a PaymentForm.handleSubmit that found no error starts: at
\* 'success' a processing callback has run.
C16_SuccessOnlyAfterPayment ==
  /\ [](step = "success" => processed)
  /\ [][ (step' = "success" /\ step # "success") =>
           lastOp' = "paySuccessTimerFires" /\ processed ]_vars
  /\ [][ Cardinality(TimersOf(timers', "paySuccess")) > Cardinality(TimersOf(timers, "paySuccess"))
           => lastOp' = "processTimerFires" /\ Head(timers).kind = "process" ]_vars
  /\ [][ (processed' /\ ~processed) => lastOp' = "processTimerFires" ]_vars
  /\ [][ Cardinality(TimersOf(timers', "process")) > Cardinality(TimersOf(timers, "process"))
           => /\ lastOp' = "paymentHandleSubmit"
              /\ AmountErrors(payment["amount"]) = << >>
              /\ MethodErrors(payment, paymentMethod) = << >> ]_vars

C16_Witness ==
  /\ step = "success"
  /\ lastOp = "paySuccessTimerFires"
  /\ processed

\* the amount is non-empty and a number greater than 0
AmountPasses(data) ==
  /\ Trim(data["amount"]) # << >>
  /\ parseFloat(data["amount"]) # NaN
  /\ parseFloat(data["amount"])[1] > 0

ErrorFields(errs) == { errs[k].field : k \in 1..Len(errs) }

\* the fields of the selected method that fail their check
MethodFailing(data, method) ==
  CASE method = "card" -> ErrorFields(validatePaymentForm(data))
    [] method = "paypal" ->
         IF Trim(data["emailAddress"]) = << >> THEN { "emailAddress" } ELSE { }
    [] method = "bank" ->
         { f \in { "bankName", "accountNumber", "routingNumber" } : Trim(data[f]) = << >> }

\* C17: PaymentForm.handleSubmit starts the processing exactly when the
\* amount check and the checks of the selected method pass; otherwise no
\* processing starts and the displayed errors are those of the failing
\* fields.
C17_ProcessingOnlyWhenValid ==
  [][ lastOp' = "paymentHandleSubmit" =>
        IF AmountPasses(payment) /\ MethodFailing(payment, paymentMethod) = { }
        THEN /\ isProcessing'
             /\ Cardinality(TimersOf(timers', "process"))
                  = Cardinality(TimersOf(timers, "process")) + 1
        ELSE /\ ~isProcessing'
             /\ timers' = timers
             /\ ErrorFields(paymentErrors')
                  = (IF AmountPasses(payment) THEN { } ELSE { "amount" })
                      \cup MethodFailing(payment, paymentMethod) ]_vars

\* C17 as amended: PaymentForm.handleSubmit starts the processing exactly
\* when the amount check and the checks of the selected method pass;
\* otherwise no processing starts and the displayed errors are the amount
\* error alone when the amount check fails (the method is then not
\* checked), and else those of the failing fields of the selected method.
C17_AmountCheckedFirst ==
  [][ lastOp' = "paymentHandleSubmit" =>
        IF AmountPasses(payment) /\ MethodFailing(payment, paymentMethod) = { }
        THEN /\ isProcessing'
             /\ Cardinality(TimersOf(timers', "process"))
                  = Cardinality(TimersOf(timers, "process")) + 1
        ELSE /\ ~isProcessing'
             /\ timers' = timers
             /\ ErrorFields(paymentErrors')
                  = (IF AmountPasses(payment)
                     THEN MethodFailing(payment, paymentMethod)
                     ELSE { "amount" }) ]_vars

C17_Witness ==
  /\ lastOp = "paymentHandleSubmit"
  /\ ~isProcessing
  /\ paymentMethod = "paypal"
  /\ AmountPasses(payment)
  /\ ErrorFields(paymentErrors) = { "emailAddress" }
  /\ payment["emailAddress"] = Blank

\* C18: in the director form a value of bio, countryOverview or culturalInfo
\* passes validation if and only if the word count displayed next to the
\* field is at most 500.
C18_WordLimitIsDisplayedCount ==
  [][ lastOp' \in { "dirFieldChange", "dirSubmit" } =>
        \A f \in DirWordFields :
          (lastOp' = "dirSubmit" \/ dirValues'[f] # dirValues[f]) =>
            (f \notin dirErrors' <=> displayedWords(dirValues'[f]) <= WordLimit) ]_vars

\* the text fields the director form marks as required
DirRequiredTextFields == DirTextFields \ { "dateOfBirth" }

\* C19: in the director form a required text field that is empty after
\* trimming fails validation: form.trigger does not succeed on its section
\* and the form is not submitted with such a value.
C19_BlankRequiredFieldFails ==
  /\ [][ lastOp' = "goToNextSection" =>
           (dirPending'[Len(dirPending')].ok =>
              \A f \in TriggerFields(dirSection) \cap DirRequiredTextFields :
                Trim(dirValues[f]) # << >>) ]_vars
  /\ [][ (lastOp' = "dirSubmit" /\ notified' = << "success" >>) =>
           \A f \in DirRequiredTextFields : Trim(dirValues[f]) # << >> ]_vars

\* C20: whenever the participant form shows the section at index k, every
\* section before k has been passed by handleNext since the form was
\* mounted.
C20_EarlierSectionsPassed ==
  FormMounted =>
    \A i \in 0..(findIndex(currentSection) - 1) : sectionAt(i) \in passed

(***************************************************************************)
(* Properties of the payment amount.                                       *)
(***************************************************************************)
\* the digits written after the first decimal point of a text
DigitsAfterPoint(s) ==
  IF \E k \in 1..Len(s) : s[k] = "."
  THEN Len(s) - (CHOOSE k \in 1..Len(s) : s[k] = "." /\ \A j \in 1..(k - 1) : s[j] # ".")
  ELSE 0

\* C21: whenever payment processing starts, the amount is not empty, parses
\* to a number greater than 0 and has at most 2 digits after the decimal
\* point, whatever edits of the amount field came before.
C21_AmountWellFormedAtStart ==
  [][ (lastOp' = "paymentHandleSubmit" /\ isProcessing') =>
        /\ payment["amount"] # << >>
        /\ \A k \in 1..Len(payment["amount"]) :
             IsDigit(payment["amount"][k]) \/ payment["amount"][k] = "."
        /\ parseFloat(payment["amount"]) # NaN
        /\ parseFloat(payment["amount"])[1] > 0
        /\ DigitsAfterPoint(payment["amount"]) <= 2 ]_vars

\* a payment has started with an amount the user typed with two decimals
C21_Witness ==
  /\ lastOp = "paymentHandleSubmit"
  /\ isProcessing
  /\ payment["amount"] = << "1", ".", "2", "5" >>

(***************************************************************************)
(* Properties of the director form's navigation.                           *)
(***************************************************************************)
\* C22: goToNextSection changes the active section only if every field of
\* the section it was invoked on validated, and each change it applies moves
\* the active section exactly one position forward from the section active
\* when the change is applied, also when goToPrevSection or another
\* goToNextSection ran while form.trigger was pending.
C22_AdvanceOneFromActive ==
  [][ (lastOp' = "goToNextResumes" /\ dirSection' # dirSection) =>
        /\ Head(dirPending).ok
        /\ dirIndex(dirSection') = dirIndex(dirSection) + 1 ]_vars

(***************************************************************************)
(* Properties of the submission and of the page flow.                      *)
(***************************************************************************)
\* C23: no participant application enters Submitting with a date of birth
\* that is present and gives an age outside 18..35, whatever edits and
\* navigation came before.
C23_NoSubmissionOutOfRange ==
  [][ (lastOp' = "handleSubmit" /\ isSubmitting') => AgeAccepted(formData') ]_vars

\* C24: on the step 'application' one of the two forms is rendered: the
\* application type is 'participant' or 'director', under every interleaving
\* of the page's buttons and its 300 ms timers.
C24_ApplicationHasType ==
  step = "application" => applicationType \in { "participant", "director" }

\* C25: on the step 'payment' the application type is not 'none': a
\* submission whose timer fires after 'Back to selection' does not lead to
\* the payment of an abandoned application.
C25_PaymentHasType ==
  step = "payment" => applicationType # "none"

\* C26: once the step is 'payment' it never goes back to 'select' or
\* 'application': from 'payment' the step only changes to 'success',
\* whatever timers were pending when 'payment' was entered.
C26_PaymentOnlyToSuccess ==
  [][ step = "payment" => step' \in { "payment", "success" } ]_vars

\* C27: once the step is 'success' it never changes again: no pending
\* submission or transition timer moves the flow away from 'success'.
C27_SuccessIsFinal ==
  [][ step = "success" => step' = "success" ]_vars

\* C28: a mounted ApplicationForm calls onSubmitSuccess at most once: once
\* its submission timer has fired, no second submission is started from the
\* same form before the step change unmounts it.
C28_OneSubmissionPerForm ==
  [][ (lastOp' = "handleSubmit" /\ isSubmitting') => ~submitted ]_vars

\* C29: each started payment attempt ends with exactly one onPaymentSuccess
\* call (its timer fires once and starts one page timer), no attempt starts
\* while isProcessing is true, and after the call the step eventually
\* becomes 'success'.
C29_PaymentAttemptCompletes ==
  /\ [][ (lastOp' = "paymentHandleSubmit" /\ timers' # timers) =>
           /\ ~isProcessing
           /\ isProcessing'
           /\ Cardinality(TimersOf(timers', "process"))
                = Cardinality(TimersOf(timers, "process")) + 1 ]_vars
  /\ [][ Cardinality(TimersOf(timers', "process"))
           < Cardinality(TimersOf(timers, "process")) =>
           /\ lastOp' = "processTimerFires"
           /\ Cardinality(TimersOf(timers', "process"))
                = Cardinality(TimersOf(timers, "process")) - 1
           /\ Cardinality(TimersOf(timers', "paySuccess"))
                = Cardinality(TimersOf(timers, "paySuccess")) + 1 ]_vars
  /\ (TimersOf(timers, "process") # { }) ~> (lastOp = "processTimerFires")
  /\ (lastOp = "processTimerFires") ~> (step = "success")

\* a payment has been processed and handlePaymentSuccess has been called
C29_Witness ==
  /\ lastOp = "processTimerFires"
  /\ step = "payment"
  /\ ~isProcessing
  /\ TimersOf(timers, "paySuccess") # { }

\* C30: whenever payment processing starts, the displayed payment error list
\* is empty, for each of the three methods and after any earlier failed
\* attempts and method switches.
C30_NoErrorsWhenProcessingStarts ==
  [][ (lastOp' = "paymentHandleSubmit" /\ isProcessing') => paymentErrors' = << >> ]_vars

====
